---- MODULE Spec2Model ----
(***************************************************************************)
(* Model of homework.py: a poller that asks the Practicum status API for   *)
(* homework verdicts and relays them to one Telegram chat.                 *)
(*                                                                         *)
(* Conventions.                                                            *)
(*  - TLA+ strings are ASCII, so every Cyrillic literal of the source is   *)
(*    written in Latin transliteration; the comment next to each text      *)
(*    constant gives the source line that holds the original.              *)
(*  - A Python value that may be None is a record [some, val].             *)
(*  - A JSON value is a record tagged with its kind; a dict carries the    *)
(*    set of keys it holds, the other fields are read only for held keys.  *)
(*  - A function that may raise returns [raised, err, ...]; err is         *)
(*    [cls, text], text being str(exception).                              *)
(***************************************************************************)
EXTENDS Integers, Sequences, FiniteSets, TLC

VARIABLES
    pc,          \* control point of main: start, poll, finally, exited, crashed
    env,         \* which of the three environment variables are set (truthy)
    timestamp,   \* main's local `timestamp` (the cursor)
    from_date,   \* argument of the most recent get_api_answer call
    fetched,     \* outcome of this cycle's get_api_answer call
    response,    \* main's local `response` in this cycle
    message,     \* main's local `message` in this cycle
    calls,       \* bot.send_message calls made since the last sleep
    log,         \* logger records written since the last sleep
    pending,     \* exception propagating out of the try statement, if any
    sleep_log,   \* time.sleep durations since the last get_api_answer call
    prev,        \* what the previous cycle polled and sent
    input,       \* the argument a function is applied to on its own
    output       \* what the function made of it

vars == <<pc, env, timestamp, from_date, fetched, response, message, calls,
          log, pending, sleep_log, prev, input, output>>

---------------------------------------------------------------------------
(* Bounds of the model. *)

MaxHomeworks == 2      \* longest homeworks list the server returns
MaxDate      == 1      \* clock and current_date values range over 0..MaxDate
MaxCalls     == 2      \* channel outcomes the environment fixes per cycle

---------------------------------------------------------------------------
(* Program constants and literals. *)

RETRY_PERIOD == 600

HTTP_OK == 200

\* HOMEWORK_VERDICTS
VerdictKeys == {"approved", "reviewing", "rejected"}

HOMEWORK_VERDICTS ==
    [k \in VerdictKeys |->
        CASE k = "approved"  -> "Rabota proverena: revyueru vsyo ponravilos. Ura!"
          [] k = "reviewing" -> "Rabota vzyata na proverku revyuerom."
          [] k = "rejected"  -> "Rabota proverena: u revyuera est zamechaniya."]

TXT_NO_TOKEN      == "otsustvuet token"                        \* line 130
TXT_SENT          == "soobshchenie otpravleno"                 \* line 53
TXT_SEND_FAILED   == "Oshibka pri otpravke soobshcheniya: "    \* line 49
TXT_NOT_OK        == "Status otveta servere ne 200"            \* line 64
TXT_BAD_JSON      == "Oshibka pri obrabotke otveta API"        \* line 69
TXT_BAD_FORMAT    == "nevernyj format API"                     \* line 78, 83
TXT_NO_KEYS       == "otustvuyut ozhidaemye klyuchi v otvete api"  \* line 80
TXT_NO_DATE       == "otsutsvuet klyuch \"current_date"        \* line 85
TXT_NO_NAME       == "otvet api ne soderzhit klyucha "         \* line 92
TXT_UNDOCUMENTED  == "Nedokumentirovannyj status domashnej raboty"  \* line 96
TXT_CHANGED       == "Izmenilsya status proverki raboty \""    \* line 98
TXT_NO_DATE_KEY   == "net klyucha \"current_date\""            \* line 143
TXT_TELEGRAM      == "Timed out"          \* str() of the channel's TelegramError

---------------------------------------------------------------------------
(* Python values. *)

NoneStr == [some |-> FALSE, val |-> ""]
SomeStr(s) == [some |-> TRUE, val |-> s]
NoneInt == [some |-> FALSE, val |-> 0]
SomeInt(n) == [some |-> TRUE, val |-> n]

\* bool(x) for an optional string: None and '' are falsy.
Truthy(m) == m.some /\ m.val # ""

NoErr == [cls |-> "", text |-> ""]
Err(c, t) == [cls |-> c, text |-> t]

\* Python's exception hierarchy, as far as the except clauses test it.
IsValueError(e) == e.cls = "ValueError"
IsException(e) == e.cls \in {"ValueError", "TypeError", "KeyError", "AttributeError",
                             "ConnectionError", "TelegramError", "Exception"}

\* str(exception): KeyError shows the repr of its argument, the others the text.
StrOfError(e) == IF e.cls = "KeyError" THEN "'" \o e.text \o "'" ELSE e.text

---------------------------------------------------------------------------
(* JSON documents the server can return. *)

Names == {"hw1"}
Statuses == VerdictKeys \cup {"unknown_status"}

\* One element of the homeworks list: a dict with optional keys, or a scalar.
DictEntry(ks, n, s) ==
    [kind |-> "dict", keys |-> ks, homework_name |-> n, status |-> s]
IntEntry == [kind |-> "int", keys |-> {}, homework_name |-> "", status |-> ""]

Entries ==
    {DictEntry({"homework_name", "status"}, n, s) : n \in Names, s \in Statuses}
    \cup {DictEntry({"homework_name"}, n, "") : n \in Names}
    \cup {DictEntry({"status"}, "", "approved")}
    \cup {DictEntry({}, "", ""), IntEntry}

SeqsUpTo(S, n) == UNION {[1..k -> S] : k \in 0..n}

\* The value under the homeworks key: a list of entries, or not a list.
ListValue(items) == [kind |-> "list", items |-> items]
NotAList == [kind |-> "str", items |-> <<>>]       \* the string 'not-a-list'

HomeworksValues == {ListValue(items) : items \in SeqsUpTo(Entries, MaxHomeworks)}
                   \cup {NotAList}

Dates == 0..MaxDate

DictPayload(ks, hw, cd) ==
    [kind |-> "dict", keys |-> ks, homeworks |-> hw, current_date |-> cd]
NonDict(k) == [kind |-> k, keys |-> {}, homeworks |-> NotAList, current_date |-> 0]

Payloads ==
    {DictPayload({"homeworks", "current_date"}, hw, cd) :
        hw \in HomeworksValues, cd \in Dates}
    \cup {DictPayload({"homeworks"}, hw, 0) : hw \in HomeworksValues}
    \cup {DictPayload({"current_date"}, NotAList, cd) : cd \in Dates}
    \cup {DictPayload({}, NotAList, 0), NonDict("list"), NonDict("null")}

\* str() of the homeworks value, as the f-string of line 83 formats it.
StrOfValue(v) == IF v.kind = "str" THEN "not-a-list" ELSE "[...]"

\* str() of a homework dict, as the f-string of line 92 formats it.
StrOfEntry(h) ==
    IF "status" \in h.keys THEN "{'status': '" \o h.status \o "'}" ELSE "{}"

---------------------------------------------------------------------------
(* Results of the functions. *)

\* A logger record.
LogRec(level, text) == [level |-> level, text |-> text]

\* One call of the channel's send primitive, bot.send_message(chat_id, text):
\* `via` is the function of homework.py that made it, ok whether it returned
\* (FALSE: it raised TelegramError).
Call(via, text, ok) == [via |-> via, text |-> text, ok |-> ok]

\* The outcome the environment gives to the k-th channel call of a cycle.
Outcomes == [1..MaxCalls -> BOOLEAN]

\* The outcome of the k-th channel call of a cycle under outs; a call past the
\* last one the environment fixed gets the outcome of that last one.
ChannelOutcome(outs, k) == IF k \in DOMAIN outs THEN outs[k] ELSE outs[MaxCalls]

---------------------------------------------------------------------------
(* check_tokens, lines 31-33. *)

check_tokens(e) == e.PRACTICUM_TOKEN /\ e.TELEGRAM_TOKEN /\ e.TELEGRAM_CHAT_ID

---------------------------------------------------------------------------
(* send_error_message, lines 36-41.  n is the number of channel calls made   *)
(* before it in the cycle.  Returns the calls and log records it adds and    *)
(* the exception it lets out.                                                *)

send_error_message(text, outs, n) ==
    [calls  |-> <<Call("send_error_message", text, ChannelOutcome(outs, n + 1))>>,
     log    |-> IF ChannelOutcome(outs, n + 1) THEN <<>>
                ELSE <<LogRec("ERROR", "oshbka otpravki soobshcheniya ob oshibke "
                                       \o TXT_TELEGRAM)>>,
     raised |-> FALSE,
     err    |-> NoErr]

---------------------------------------------------------------------------
(* send_message, lines 44-53. *)

\* Variant: a failed send is tried once more before it is given up.
send_message_Retry(text, outs, n) ==
    IF ~ChannelOutcome(outs, n + 1) /\ ~ChannelOutcome(outs, n + 2)
    THEN [calls  |-> <<Call("send_message", text, FALSE), Call("send_message", text, FALSE)>>,
          log    |-> <<>>,
          raised |-> TRUE,
          err    |-> Err("Exception", TXT_SEND_FAILED \o TXT_TELEGRAM)]
    ELSE LET first == IF ChannelOutcome(outs, n + 1) THEN <<>>
                      ELSE <<Call("send_message", text, FALSE)>>
             ack == send_error_message(TXT_SENT, outs, n + Len(first) + 1)
         IN  [calls  |-> first \o <<Call("send_message", text, TRUE)>> \o ack.calls,
              log    |-> <<LogRec("DEBUG", TXT_SENT)>> \o ack.log,
              raised |-> ack.raised,
              err    |-> ack.err]

\* As written.
send_message(text, outs, n) ==
    IF ~ChannelOutcome(outs, n + 1)
    THEN [calls  |-> <<Call("send_message", text, FALSE)>>,
          log    |-> <<>>,
          raised |-> TRUE,
          err    |-> Err("Exception", TXT_SEND_FAILED \o TXT_TELEGRAM)]
    ELSE LET ack == send_error_message(TXT_SENT, outs, n + 1)
         IN  [calls  |-> <<Call("send_message", text, TRUE)>> \o ack.calls,
              log    |-> <<LogRec("DEBUG", TXT_SENT)>> \o ack.log,
              raised |-> ack.raised,
              err    |-> ack.err]

---------------------------------------------------------------------------
(* get_api_answer, lines 56-72.  net is what the network does with the GET:  *)
(* requests.get raises (exc), or a response with a status code arrives whose *)
(* body decodes as JSON (json_ok) to data, or does not.                      *)

Net(exc, status, json_ok, data) ==
    [exc |-> exc, status |-> status, json_ok |-> json_ok, data |-> data]

StatusCodes == {HTTP_OK, 204, 404, 500}

Nets ==
    {Net(TRUE, 0, FALSE, NonDict("null"))}
    \cup {Net(FALSE, c, FALSE, NonDict("null")) : c \in StatusCodes}
    \cup {Net(FALSE, HTTP_OK, TRUE, d) : d \in Payloads}

\* response.raise_for_status(): HTTPError for 4xx and 5xx.
raise_for_status(status) == 400 <= status /\ status < 600

get_api_answer(ts, net) ==
    IF net.exc \/ raise_for_status(net.status)
    THEN \* line 72: a RequestException becomes a ConnectionError without text
         [raised |-> TRUE, err |-> Err("ConnectionError", ""), data |-> NonDict("null")]
    ELSE IF net.status # HTTP_OK
    THEN [raised |-> TRUE, err |-> Err("ConnectionError", TXT_NOT_OK),
          data |-> NonDict("null")]
    ELSE IF ~net.json_ok
    THEN [raised |-> TRUE, err |-> Err("ConnectionError", TXT_BAD_JSON),
          data |-> NonDict("null")]
    ELSE [raised |-> FALSE, err |-> NoErr, data |-> net.data]

---------------------------------------------------------------------------
(* check_response, lines 75-86. *)

\* Variant: a missing or non-list homeworks value is taken for an empty list.
check_response_Lenient(r) ==
    IF r.kind # "dict"
    THEN [raised |-> TRUE, err |-> Err("TypeError", TXT_BAD_FORMAT), homeworks |-> <<>>]
    ELSE IF "current_date" \notin r.keys
    THEN [raised |-> TRUE, err |-> Err("KeyError", TXT_NO_DATE), homeworks |-> <<>>]
    ELSE IF "homeworks" \notin r.keys \/ r.homeworks.kind # "list"
    THEN [raised |-> FALSE, err |-> NoErr, homeworks |-> <<>>]
    ELSE [raised |-> FALSE, err |-> NoErr, homeworks |-> r.homeworks.items]

\* Variant: lines 84-85, the test for current_date, are missing.
check_response_NoDateCheck(r) ==
    IF r.kind # "dict"
    THEN [raised |-> TRUE, err |-> Err("TypeError", TXT_BAD_FORMAT), homeworks |-> <<>>]
    ELSE IF "homeworks" \notin r.keys
    THEN [raised |-> TRUE, err |-> Err("KeyError", TXT_NO_KEYS), homeworks |-> <<>>]
    ELSE IF r.homeworks.kind # "list"
    THEN [raised |-> TRUE,
          err |-> Err("TypeError", TXT_BAD_FORMAT \o ", " \o StrOfValue(r.homeworks)),
          homeworks |-> <<>>]
    ELSE [raised |-> FALSE, err |-> NoErr, homeworks |-> r.homeworks.items]

\* As written.
check_response(r) ==
    IF r.kind # "dict"
    THEN [raised |-> TRUE, err |-> Err("TypeError", TXT_BAD_FORMAT), homeworks |-> <<>>]
    ELSE IF "homeworks" \notin r.keys
    THEN [raised |-> TRUE, err |-> Err("KeyError", TXT_NO_KEYS), homeworks |-> <<>>]
    ELSE IF r.homeworks.kind # "list"
    THEN [raised |-> TRUE,
          err |-> Err("TypeError", TXT_BAD_FORMAT \o ", " \o StrOfValue(r.homeworks)),
          homeworks |-> <<>>]
    ELSE IF "current_date" \notin r.keys
    THEN [raised |-> TRUE, err |-> Err("KeyError", TXT_NO_DATE), homeworks |-> <<>>]
    ELSE [raised |-> FALSE, err |-> NoErr, homeworks |-> r.homeworks.items]

---------------------------------------------------------------------------
(* parse_status, lines 89-98. *)

parse_status(h) ==
    IF h.kind # "dict"
    THEN \* `'homework_name' not in 5`
         [raised |-> TRUE, err |-> Err("TypeError", "argument of type 'int' is not iterable"),
          value |-> ""]
    ELSE IF "homework_name" \notin h.keys
    THEN [raised |-> TRUE, err |-> Err("ValueError", TXT_NO_NAME \o StrOfEntry(h)),
          value |-> ""]
    ELSE IF ~("status" \in h.keys /\ h.status \in DOMAIN HOMEWORK_VERDICTS)
    THEN \* homework.get('status') is None when the key is absent
         [raised |-> TRUE, err |-> Err("ValueError", TXT_UNDOCUMENTED), value |-> ""]
    ELSE [raised |-> FALSE, err |-> NoErr,
          value |-> TXT_CHANGED \o h.homework_name \o "\". "
                    \o HOMEWORK_VERDICTS[h.status]]

---------------------------------------------------------------------------
(* handle_homework, lines 101-109: every exception of parse_status is caught *)
(* and logged, and None is returned in its place.                            *)

handle_homework(h) ==
    LET r == parse_status(h)
    IN  IF r.raised
        THEN [value |-> NoneStr,
              log |-> <<LogRec("ERROR", "oshibka parsinga " \o StrOfError(r.err))>>]
        ELSE [value |-> IF r.value # "" THEN SomeStr(r.value) ELSE NoneStr,
              log |-> <<>>]

---------------------------------------------------------------------------
(* handle_response, lines 112-120: only ValueError is caught here; the       *)
(* TypeError and KeyError of check_response pass through to main.            *)

\* Variant: the last record of the list is interpreted, not the first.
handle_response_LastEntry(r) ==
    LET c == check_response(r)
    IN  IF c.raised
        THEN IF IsValueError(c.err)
             THEN [raised |-> FALSE, err |-> NoErr, value |-> NoneStr,
                   log |-> <<LogRec("ERROR", "oshchibka v zaprose API "
                                             \o StrOfError(c.err))>>]
             ELSE [raised |-> TRUE, err |-> c.err, value |-> NoneStr, log |-> <<>>]
        ELSE IF c.homeworks # <<>>
        THEN LET h == handle_homework(c.homeworks[Len(c.homeworks)])
             IN  [raised |-> FALSE, err |-> NoErr, value |-> h.value, log |-> h.log]
        ELSE [raised |-> FALSE, err |-> NoErr, value |-> NoneStr, log |-> <<>>]

\* Variant: the except clause catches Exception.
handle_response_CatchAll(r) ==
    LET c == check_response(r)
    IN  IF c.raised
        THEN [raised |-> FALSE, err |-> NoErr, value |-> NoneStr,
              log |-> <<LogRec("ERROR", "oshchibka v zaprose API " \o StrOfError(c.err))>>]
        ELSE IF c.homeworks # <<>>
        THEN LET h == handle_homework(c.homeworks[1])
             IN  [raised |-> FALSE, err |-> NoErr, value |-> h.value, log |-> h.log]
        ELSE [raised |-> FALSE, err |-> NoErr, value |-> NoneStr, log |-> <<>>]

\* As written.
handle_response(r) ==
    LET c == check_response(r)
    IN  IF c.raised
        THEN IF IsValueError(c.err)
             THEN [raised |-> FALSE, err |-> NoErr, value |-> NoneStr,
                   log |-> <<LogRec("ERROR", "oshchibka v zaprose API "
                                             \o StrOfError(c.err))>>]
             ELSE [raised |-> TRUE, err |-> c.err, value |-> NoneStr, log |-> <<>>]
        ELSE IF c.homeworks # <<>>
        THEN LET h == handle_homework(c.homeworks[1])
             IN  [raised |-> FALSE, err |-> NoErr, value |-> h.value, log |-> h.log]
        ELSE [raised |-> FALSE, err |-> NoErr, value |-> NoneStr, log |-> <<>>]

---------------------------------------------------------------------------
(* main, lines 123-149. *)

\* `response` and `message` before the cycle assigns them.  Every path of the
\* loop body assigns them before it reads them, so their values of the last
\* cycle are dead at the loop top.
Unbound == NonDict("unbound")

NotFetched == [called |-> FALSE, raised |-> FALSE, err |-> NoErr]

NoPending == [raised |-> FALSE, err |-> NoErr]

\* Lines 125-131 and 132.  ctor_ok: telegram.Bot(token=...) returned.  The
\* constructor runs before check_tokens() and outside any try statement, and
\* the library may refuse the token it is given, a missing one or one that is
\* set but malformed, which ends main with the library's exception;
\* clock is int(time.time()).
\* Variant: the alert is sent but `raise SystemExit` is missing, so main goes on
\* into the loop.
main_startup_NoExit(e, ctor_ok, clock, outs) ==
    IF ~ctor_ok
    THEN [pc |-> "crashed", calls |-> <<>>, log |-> <<>>, timestamp |-> NoneInt,
          pending |-> [raised |-> TRUE, err |-> Err("InvalidToken", "")]]
    ELSE IF ~check_tokens(e)
    THEN LET a == send_error_message(TXT_NO_TOKEN, outs, 0)
         IN  [pc |-> "poll", calls |-> a.calls,
              log |-> <<LogRec("CRITICAL", "Otsustvuet token, programma priostanovlena")>>
                      \o a.log,
              timestamp |-> SomeInt(clock), pending |-> NoPending]
    ELSE [pc |-> "poll", calls |-> <<>>, log |-> <<>>, timestamp |-> SomeInt(clock),
          pending |-> NoPending]

\* As written.
main_startup(e, ctor_ok, clock, outs) ==
    IF ~ctor_ok
    THEN [pc |-> "crashed", calls |-> <<>>, log |-> <<>>, timestamp |-> NoneInt,
          pending |-> [raised |-> TRUE, err |-> Err("InvalidToken", "")]]
    ELSE IF ~check_tokens(e)
    THEN LET a == send_error_message(TXT_NO_TOKEN, outs, 0)
         IN  [pc |-> IF a.raised THEN "crashed" ELSE "exited",
              calls |-> a.calls,
              log |-> <<LogRec("CRITICAL", "Otsustvuet token, programma priostanovlena")>>
                      \o a.log,
              timestamp |-> NoneInt,
              pending |-> IF a.raised THEN [raised |-> TRUE, err |-> a.err]
                          ELSE [raised |-> TRUE, err |-> Err("SystemExit", "")]]
    ELSE [pc |-> "poll", calls |-> <<>>, log |-> <<>>, timestamp |-> SomeInt(clock),
          pending |-> NoPending]

\* Lines 140-144, reached when lines 135-139 raised nothing.  r is `response`,
\* ts is `timestamp`, n the number of channel calls made so far in the cycle.
\* Variant: the cursor takes the envelope's current_date whenever the key is
\* there.
main_current_date_Assign(r, ts, outs, n) ==
    IF r.kind = "dict" /\ "current_date" \in r.keys
    THEN [raised |-> FALSE, err |-> NoErr, calls |-> <<>>, log |-> <<>>,
          timestamp |-> SomeInt(r.current_date)]
    ELSE [raised |-> FALSE, err |-> NoErr, calls |-> <<>>, log |-> <<>>,
          timestamp |-> ts]

\* As written: the branch is taken when the key is absent.
main_current_date(r, ts, outs, n) ==
    IF r.kind \notin {"dict", "list"}
    THEN \* `'current_date' not in None`
         [raised |-> TRUE,
          err |-> Err("TypeError", "argument of type 'NoneType' is not iterable"),
          calls |-> <<>>, log |-> <<>>, timestamp |-> ts]
    ELSE IF r.kind = "dict" /\ "current_date" \in r.keys
    THEN [raised |-> FALSE, err |-> NoErr, calls |-> <<>>, log |-> <<>>,
          timestamp |-> ts]
    ELSE LET a == send_error_message(TXT_NO_DATE_KEY, outs, n)
             l == <<LogRec("ERROR", "otsutsvuet klyuch \"current_date\"")>> \o a.log
         IN  IF a.raised
             THEN [raised |-> TRUE, err |-> a.err, calls |-> a.calls, log |-> l,
                   timestamp |-> ts]
             ELSE IF r.kind # "dict"
             THEN \* `[].get`
                  [raised |-> TRUE,
                   err |-> Err("AttributeError", "'list' object has no attribute 'get'"),
                   calls |-> a.calls, log |-> l, timestamp |-> ts]
             ELSE \* response.get('current_date') of a dict without the key
                  [raised |-> FALSE, err |-> NoErr, calls |-> a.calls, log |-> l,
                   timestamp |-> NoneInt]

\* The exit status of the process when the exception p leaves main: line 131
\* raises SystemExit without a code, which ends the interpreter with status 0;
\* any other exception ends it with a traceback and status 1.
exit_status(p) == IF p.err.cls = "SystemExit" THEN 0 ELSE 1

TryResult(f, r, m, c, l, raised, err, ts) ==
    [fetched |-> [called |-> TRUE, raised |-> f.raised, err |-> f.err],
     response |-> r, message |-> m, calls |-> c, log |-> l,
     raised |-> raised, err |-> err, timestamp |-> ts]

\* The try block, lines 135-144.
main_try(ts, net, outs) ==
    LET f == get_api_answer(ts, net)
    IN  IF f.raised
        THEN TryResult(f, Unbound, NoneStr, <<>>, <<>>, TRUE, f.err, ts)
        ELSE
        LET h == handle_response(f.data)
        IN  IF h.raised
            THEN TryResult(f, f.data, NoneStr, <<>>, h.log, TRUE, h.err, ts)
            ELSE
            LET s == IF Truthy(h.value)
                     THEN send_message(h.value.val, outs, 0)
                     ELSE [calls |-> <<>>, log |-> <<>>, raised |-> FALSE, err |-> NoErr]
            IN  IF s.raised
                THEN TryResult(f, f.data, h.value, s.calls, h.log \o s.log,
                               TRUE, s.err, ts)
                ELSE
                LET info == IF Truthy(h.value)
                            THEN <<LogRec("INFO", "Novoe soobshchenie: " \o h.value.val)>>
                            ELSE <<>>
                    d == main_current_date(f.data, ts, outs, Len(s.calls))
                IN  TryResult(f, f.data, h.value, s.calls \o d.calls,
                              h.log \o s.log \o info \o d.log,
                              d.raised, d.err, d.timestamp)

\* The except clause, lines 145-147, applied to the outcome t of the try block.
\* Variant: the clause catches ValueError only.
main_except_ValueErrorOnly(t, outs) ==
    IF t.raised /\ IsValueError(t.err)
    THEN LET a == send_error_message(StrOfError(t.err), outs, Len(t.calls))
         IN  [calls |-> t.calls \o a.calls,
              log |-> t.log
                      \o <<LogRec("ERROR", "Sboj v rabote programmy: " \o StrOfError(t.err))>>
                      \o a.log,
              pending |-> [raised |-> a.raised, err |-> a.err]]
    ELSE [calls |-> t.calls, log |-> t.log,
          pending |-> [raised |-> t.raised, err |-> t.err]]

\* As written: it catches Exception.
main_except(t, outs) ==
    IF t.raised /\ IsException(t.err)
    THEN LET a == send_error_message(StrOfError(t.err), outs, Len(t.calls))
         IN  [calls |-> t.calls \o a.calls,
              log |-> t.log
                      \o <<LogRec("ERROR", "Sboj v rabote programmy: " \o StrOfError(t.err))>>
                      \o a.log,
              pending |-> [raised |-> a.raised, err |-> a.err]]
    ELSE [calls |-> t.calls, log |-> t.log,
          pending |-> [raised |-> t.raised, err |-> t.err]]

\* Where control goes after the try block and its except clause: the finally
\* clause, lines 148-149, on every path.  tryRaised: the try block raised;
\* escaping: an exception is leaving the statement.
\* Variant: the sleep is in an else clause, so it is skipped when the try block
\* raised.
after_try_SleepInElse(tryRaised, escaping) ==
    IF escaping THEN "crashed" ELSE IF tryRaised THEN "poll" ELSE "finally"

\* As written.
after_try(tryRaised, escaping) == "finally"

\* The first homework record of a poll that succeeded, None otherwise.
NoEntry == [some |-> FALSE, val |-> DictEntry({}, "", "")]
FirstRecord(f, r) ==
    IF f.called /\ ~f.raised /\ ~check_response(r).raised
       /\ check_response(r).homeworks # <<>>
    THEN [some |-> TRUE, val |-> check_response(r).homeworks[1]]
    ELSE NoEntry

\* The channel calls that carry a status message: send_message's own call.
StatusCalls(cs) == {i \in 1..Len(cs) : cs[i].via = "send_message"}

\* The current_date of the envelope a poll got accepted, None otherwise.
AcceptedDate(f, r) ==
    IF f.called /\ ~f.raised /\ ~check_response(r).raised
    THEN SomeInt(r.current_date)
    ELSE NoneInt

\* What went wrong in a cycle: the fetch, the envelope, the interpretation of
\* the first record, a channel call.
Failures(f, r, cs) ==
    {k \in {"transport"} : f.raised}
    \cup {k \in {"envelope"} : f.called /\ ~f.raised /\ check_response(r).raised}
    \cup {k \in {"interpret"} : FirstRecord(f, r).some
                                 /\ parse_status(FirstRecord(f, r).val).raised}
    \cup {k \in {"channel"} : \E i \in 1..Len(cs) : ~cs[i].ok}

\* The record of a finished cycle that `prev` keeps for the next one.
NoCycle == [polled |-> FALSE, first |-> NoEntry, date |-> NoneInt,
            status_calls |-> 0, failed |-> {}]
CycleSummary(f, r, cs) ==
    [polled |-> f.called, first |-> FirstRecord(f, r), date |-> AcceptedDate(f, r),
     status_calls |-> Cardinality(StatusCalls(cs)), failed |-> Failures(f, r, cs)]

---------------------------------------------------------------------------
(* The state machine. *)

Envs == [PRACTICUM_TOKEN : BOOLEAN, TELEGRAM_TOKEN : BOOLEAN, TELEGRAM_CHAT_ID : BOOLEAN]

\* `input` and `output` while no function is applied on its own.
NoInput == [op |-> "none", payload |-> Unbound, entry |-> IntEntry]
NoOutput == [op |-> "none", raised |-> FALSE, err |-> NoErr, homeworks |-> <<>>,
             value |-> ""]

Init ==
    /\ pc = "start"
    /\ env \in Envs
    /\ timestamp = NoneInt
    /\ from_date = NoneInt
    /\ fetched = NotFetched
    /\ response = Unbound
    /\ message = NoneStr
    /\ calls = <<>>
    /\ log = <<>>
    /\ pending = NoPending
    /\ sleep_log = <<>>
    /\ prev = NoCycle
    /\ input = NoInput
    /\ output = NoOutput

\* main up to the loop: lines 125-132.
Startup ==
    /\ pc = "start"
    /\ \E ctor_ok \in BOOLEAN, clock \in Dates, outs \in Outcomes :
         LET r == main_startup(env, ctor_ok, clock, outs)
         IN  /\ pc' = r.pc
             /\ timestamp' = r.timestamp
             /\ calls' = r.calls
             /\ log' = r.log
             /\ pending' = r.pending
    /\ UNCHANGED <<env, from_date, fetched, response, message, sleep_log, prev,
                   input, output>>

\* One pass through the try statement of the loop, up to its finally clause:
\* lines 134-147.
CycleOn(nets) ==
    /\ pc = "poll"
    /\ \E net \in nets, outs \in Outcomes :
         LET t == main_try(timestamp, net, outs)
             x == main_except(t, outs)
         IN  /\ from_date' = timestamp
             /\ fetched' = t.fetched
             /\ response' = t.response
             /\ message' = t.message
             /\ timestamp' = t.timestamp
             /\ calls' = x.calls
             /\ log' = x.log
             /\ pending' = x.pending
             /\ pc' = after_try(t.raised, x.pending.raised)
    /\ sleep_log' = <<>>
    /\ UNCHANGED <<env, prev, input, output>>

Cycle == CycleOn(Nets)

\* The finally clause, lines 148-149, and the way back to the loop top.
Sleep ==
    /\ pc = "finally"
    /\ sleep_log' = Append(sleep_log, RETRY_PERIOD)
    /\ pc' = IF pending.raised THEN "crashed" ELSE "poll"
    /\ prev' = CycleSummary(fetched, response, calls)
    /\ fetched' = NotFetched
    /\ response' = Unbound
    /\ message' = NoneStr
    /\ calls' = <<>>
    /\ log' = <<>>
    /\ UNCHANGED <<env, timestamp, from_date, pending, input, output>>

Next == Startup \/ Cycle \/ Sleep

Spec == Init /\ [][Next]_vars

\* The loop under fairness: the single thread of main always takes its next
\* step, so a cycle that can run does run and a sleep that was started ends.
\* The server's answers are those of Nets whose homeworks list holds at most
\* one record, which leaves every kind of failure of a cycle in.
ShortNets == {n \in Nets : Len(n.data.homeworks.items) <= 1}

ShortCycle == CycleOn(ShortNets)

LoopNext == Startup \/ ShortCycle \/ Sleep

LoopSpec == Init /\ [][LoopNext]_vars /\ WF_vars(ShortCycle) /\ WF_vars(Sleep)

---------------------------------------------------------------------------
(* check_response and parse_status applied on their own, to every payload of *)
(* Payloads and to every homework record of FunEntries.                      *)

FunNames == {"hw1", "Final project"}

FunEntries ==
    Entries
    \cup {DictEntry({"homework_name", "status"}, n, s) : n \in FunNames, s \in Statuses}
    \cup {DictEntry({"homework_name"}, n, "") : n \in FunNames}
    \cup {DictEntry({"status"}, "", s) : s \in Statuses}

FunInputs ==
    {[op |-> "check_response", payload |-> p, entry |-> IntEntry] : p \in Payloads}
    \cup {[op |-> "parse_status", payload |-> Unbound, entry |-> h] : h \in FunEntries}

FunInit ==
    /\ pc = "fun"
    /\ env = [PRACTICUM_TOKEN |-> TRUE, TELEGRAM_TOKEN |-> TRUE, TELEGRAM_CHAT_ID |-> TRUE]
    /\ timestamp = NoneInt
    /\ from_date = NoneInt
    /\ fetched = NotFetched
    /\ response = Unbound
    /\ message = NoneStr
    /\ calls = <<>>
    /\ log = <<>>
    /\ pending = NoPending
    /\ sleep_log = <<>>
    /\ prev = NoCycle
    /\ input \in FunInputs
    /\ output = NoOutput

\* check_response(input.payload), lines 75-86.
ApplyCheckResponse ==
    /\ pc = "fun"
    /\ input.op = "check_response"
    /\ output = NoOutput
    /\ LET c == check_response(input.payload)
       IN  output' = [op |-> "check_response", raised |-> c.raised, err |-> c.err,
                      homeworks |-> c.homeworks, value |-> ""]
    /\ UNCHANGED <<pc, env, timestamp, from_date, fetched, response, message, calls,
                   log, pending, sleep_log, prev, input>>

\* parse_status(input.entry), lines 89-98.
ApplyParseStatus ==
    /\ pc = "fun"
    /\ input.op = "parse_status"
    /\ output = NoOutput
    /\ LET r == parse_status(input.entry)
       IN  output' = [op |-> "parse_status", raised |-> r.raised, err |-> r.err,
                      homeworks |-> <<>>, value |-> r.value]
    /\ UNCHANGED <<pc, env, timestamp, from_date, fetched, response, message, calls,
                   log, pending, sleep_log, prev, input>>

FunNext == ApplyCheckResponse \/ ApplyParseStatus

FunSpec == FunInit /\ [][FunNext]_vars

---------------------------------------------------------------------------
(* Properties. *)

\* The channel calls the cycle made through send_error_message.
AlertCalls(cs) == {i \in 1..Len(cs) : cs[i].via = "send_error_message"}

\* C1: after a cycle whose envelope check_response accepted, the next
\* get_api_answer call is given that envelope's current_date as its timestamp.
C1_CursorAdvances ==
    (pc = "finally" /\ prev.date.some) => from_date = prev.date

\* C2: when two consecutive successful polls return the same first homework
\* record, the two cycles together send its status message at most once.
C2_Dedup ==
    (pc = "finally" /\ prev.first.some /\ FirstRecord(fetched, response) = prev.first)
        => prev.status_calls + Cardinality(StatusCalls(calls)) <= 1

\* C3: the timestamp given to get_api_answer never decreases from one call to
\* the next.
C3_CursorMonotonic ==
    [][from_date.some => (from_date'.some /\ from_date'.val >= from_date.val)]_vars

\* A second poll was made after the server had answered with a current_date
\* below the cursor.
C3_Witness ==
    /\ pc = "finally"
    /\ fetched.called
    /\ prev.date.some
    /\ from_date.some
    /\ prev.date.val < from_date.val

LoopPcs == {"poll", "finally"}

\* C4: once main is in its loop it stays in it, whatever fails in a cycle, and
\* every cycle is followed by a sleep and a further get_api_answer call.
C4_NonCrashingLoop ==
    /\ [][(pc \in LoopPcs) => (pc' \in LoopPcs)]_vars
    /\ (pc = "finally") ~> (pc = "poll")
    /\ (pc = "poll") ~> (pc = "finally" /\ fetched.called)

\* A poll is made after a cycle in which the fetch or the envelope failed and
\* the channel failed as well.
C4_Witness ==
    /\ pc = "finally"
    /\ fetched.called
    /\ "channel" \in prev.failed
    /\ prev.failed \cap {"transport", "envelope"} # {}

\* C5: a send_message call that completes puts exactly one message on the
\* channel.
C5_OneMessagePerNotification ==
    (pc = "finally" /\ calls # <<>> /\ calls[1].via = "send_message" /\ calls[1].ok)
        => Len(calls) = 1

\* C6: a cycle whose envelope is accepted and whose first record cannot be
\* interpreted attempts an alert on the channel.
C6_InterpretErrorEscalated ==
    (pc = "finally" /\ "interpret" \in Failures(fetched, response, calls))
        => AlertCalls(calls) # {}

\* C7: a cycle in which get_api_answer raises or check_response rejects the
\* payload calls send_error_message, before the sleep, with a description of
\* that error: the text of the error, which says something (is not empty).
C7_TransportEnvelopeEscalated ==
    (fetched.called /\ (fetched.raised \/ check_response(response).raised))
        => /\ sleep_log = <<>>
           /\ \E i \in AlertCalls(calls) :
                /\ calls[i].text = StrOfError(IF fetched.raised THEN fetched.err
                                              ELSE check_response(response).err)
                /\ calls[i].text # ""

\* C8: whenever get_api_answer is about to be called again, exactly one
\* time.sleep(RETRY_PERIOD) has been made since its last call.
C8_UnconditionalWait ==
    /\ (pc = "poll" /\ from_date.some) => sleep_log = <<RETRY_PERIOD>>
    /\ pc = "finally" => sleep_log = <<>>

\* The loop is back at its top after a cycle that failed.
C8_Witness ==
    /\ pc = "poll"
    /\ prev.polled
    /\ prev.failed # {}
    /\ sleep_log = <<RETRY_PERIOD>>

\* C9: when the channel fails on the status message, the cycle makes no
\* further call of the send primitive.
C9_FailedNotificationNotEscalated ==
    (pc = "finally" /\ calls # <<>> /\ calls[1].via = "send_message" /\ ~calls[1].ok)
        => Len(calls) = 1

\* C10 as stated: main ends without any channel call when a credential is
\* absent.
C10_NoAlertAtStartup ==
    (~check_tokens(env) /\ pc \in {"exited", "crashed"}) => calls = <<>>

\* C10, amended: when a credential is absent main ends without polling, after
\* at most one channel call, the alert of line 130; it makes exactly that one
\* call whenever it ends by SystemExit.
C10_StartupAlertOnce ==
    (~check_tokens(env) /\ pc # "start")
        => /\ pc \in {"exited", "crashed"}
           /\ ~fetched.called /\ from_date = NoneInt
           /\ Len(calls) <= 1
           /\ \A i \in 1..Len(calls) :
                calls[i].via = "send_error_message" /\ calls[i].text = TXT_NO_TOKEN
           /\ (pc = "exited" => Len(calls) = 1)

\* main ended by SystemExit after an alert that the channel refused.
C10_Witness ==
    /\ ~check_tokens(env)
    /\ pc = "exited"
    /\ Len(calls) = 1
    /\ ~calls[1].ok

\* main has ended: by SystemExit, or by an exception nothing caught.
Terminated == pc \in {"exited", "crashed"}

\* C11: a missing credential ends main before any get_api_answer call, and
\* with all three credentials present main never ends.
C11_OnlyMissingCredentialsTerminate ==
    /\ (~check_tokens(env) /\ pc # "start")
          => (Terminated /\ ~fetched.called /\ ~prev.polled /\ from_date = NoneInt)
    /\ check_tokens(env) => ~Terminated

\* C14: when a credential is absent the process ends with a non-zero exit
\* status.
C14_FatalExitNonZero ==
    (~check_tokens(env) /\ Terminated) => exit_status(pending) # 0

\* C15: a cycle in which get_api_answer raises or check_response rejects the
\* envelope leaves the cursor at the value it passed to get_api_answer.
C15_FailedPollKeepsCursor ==
    (pc = "finally" /\ fetched.called
       /\ (fetched.raised \/ check_response(response).raised))
        => (timestamp.some /\ timestamp = from_date)

\* A fetch failed, and so did the poll before it.
C15_Witness ==
    /\ pc = "finally"
    /\ fetched.called /\ fetched.raised
    /\ timestamp = from_date
    /\ "envelope" \in prev.failed

\* What the claims call a valid envelope: a mapping that holds a list under
\* homeworks and holds current_date.
ValidEnvelope(r) ==
    /\ r.kind = "dict"
    /\ {"homeworks", "current_date"} \subseteq r.keys
    /\ r.homeworks.kind = "list"

\* C17: a valid envelope with an empty homeworks list makes the cycle call the
\* channel not at all, and a payload that is no valid envelope always makes it
\* attempt an alert.
C17_EmptyIsNotBroken ==
    (pc = "finally" /\ fetched.called /\ ~fetched.raised)
        => /\ (ValidEnvelope(response) /\ response.homeworks.items = <<>>)
                 => calls = <<>>
           /\ ~ValidEnvelope(response) => AlertCalls(calls) # {}

\* An empty valid envelope was polled without a channel call, right after a
\* cycle whose payload was rejected.
C17_Witness ==
    /\ pc = "finally"
    /\ fetched.called /\ ~fetched.raised
    /\ ValidEnvelope(response)
    /\ response.homeworks.items = <<>>
    /\ calls = <<>>
    /\ "envelope" \in prev.failed

\* C18: when handle_response returns to main the response is a valid envelope,
\* so the branch of line 140 is never taken: its alert is never sent and the
\* cursor is always an integer.
C18_DateBranchUnreachable ==
    /\ (pc = "finally" /\ fetched.called /\ ~fetched.raised
          /\ ~handle_response(response).raised)
          => ValidEnvelope(response)
    /\ \A i \in 1..Len(calls) : calls[i].text # TXT_NO_DATE_KEY
    /\ pc \in LoopPcs => timestamp.some

\* handle_response has returned None for a record it could not interpret and
\* main has gone past line 140 without a channel call.
C18_Witness ==
    /\ pc = "finally"
    /\ fetched.called /\ ~fetched.raised
    /\ ~handle_response(response).raised
    /\ "interpret" \in Failures(fetched, response, calls)
    /\ calls = <<>>
    /\ timestamp.some

\* C19: no cycle makes more than two calls of the channel's send primitive.
C19_AtMostTwoCalls == Len(calls) <= 2

\* The status message failed on the channel and the alert about it failed too.
C19_Witness ==
    /\ pc = "finally"
    /\ Len(calls) = 2
    /\ calls[1].via = "send_message" /\ ~calls[1].ok
    /\ calls[2].via = "send_error_message" /\ ~calls[2].ok

\* The channel calls of one cycle that is given payload p by the server and
\* outs by the channel: lines 134-147.
CycleCalls(ts, p, outs) ==
    main_except(main_try(ts, Net(FALSE, HTTP_OK, TRUE, p), outs), outs).calls

\* The channel outcomes a cycle that made the calls cs has met.
OutsOf(cs) == [k \in 1..MaxCalls |-> IF k <= Len(cs) THEN cs[k].ok ELSE TRUE]

\* The valid envelope that holds the first record of r and nothing else.
HeadOnly(r) ==
    DictPayload({"homeworks", "current_date"}, ListValue(<<r.homeworks.items[1]>>), 0)

\* C16: the channel calls of a cycle whose envelope is valid and not empty are
\* those of the cycle on the envelope that holds its first record alone, under
\* the same channel outcomes; so any two envelopes with equal first records
\* put the same messages on the channel.
C16_OnlyFirstEntryMatters ==
    (pc = "finally" /\ fetched.called /\ ~fetched.raised /\ ValidEnvelope(response)
       /\ response.homeworks.items # <<>>)
        => calls = CycleCalls(from_date, HeadOnly(response), OutsOf(calls))

\* The status of the first record was sent although the second record of the
\* list cannot be interpreted.
C16_Witness ==
    /\ pc = "finally"
    /\ fetched.called /\ ~fetched.raised
    /\ ValidEnvelope(response)
    /\ Len(response.homeworks.items) = 2
    /\ ~parse_status(response.homeworks.items[1]).raised
    /\ parse_status(response.homeworks.items[2]).raised
    /\ calls # <<>>
    /\ calls[1].via = "send_message"

\* C12: check_response fails with TypeError on a payload that is no mapping or
\* holds a homeworks value that is no list, fails with KeyError on a mapping
\* without homeworks or without current_date, and otherwise returns the
\* homeworks list as it is.  Where a payload is both (homeworks no list and
\* current_date absent) either of the two errors fits the claim.
C12_EnvelopeValidation ==
    output.op = "check_response" =>
        LET r == input.payload
            hasHw == "homeworks" \in r.keys
            hasCd == "current_date" \in r.keys
            isList == r.homeworks.kind = "list"
        IN  /\ r.kind # "dict" => (output.raised /\ output.err.cls = "TypeError")
            /\ (r.kind = "dict" /\ ~hasHw)
                  => (output.raised /\ output.err.cls = "KeyError")
            /\ (r.kind = "dict" /\ hasHw /\ ~isList /\ hasCd)
                  => (output.raised /\ output.err.cls = "TypeError")
            /\ (r.kind = "dict" /\ hasHw /\ ~isList /\ ~hasCd)
                  => (output.raised /\ output.err.cls \in {"TypeError", "KeyError"})
            /\ (r.kind = "dict" /\ hasHw /\ isList /\ ~hasCd)
                  => (output.raised /\ output.err.cls = "KeyError")
            /\ ValidEnvelope(r)
                  => (~output.raised /\ output.homeworks = r.homeworks.items)

\* check_response has refused {"homeworks": "not-a-list", "current_date": 1}
\* with TypeError.
C12_Witness ==
    /\ output.op = "check_response"
    /\ input.payload = DictPayload({"homeworks", "current_date"}, NotAList, 1)
    /\ output.raised
    /\ output.err.cls = "TypeError"

\* The two errors of parse_status: line 92 and line 96.
MissingFieldError(h) == Err("ValueError", TXT_NO_NAME \o StrOfEntry(h))
UnknownStatusError == Err("ValueError", TXT_UNDOCUMENTED)

\* C13: parse_status fails with the missing-field error on a record without
\* homework_name or without status, with the unknown-status error on a status
\* outside the verdict table, and otherwise returns the status message of the
\* record's name and verdict.
C13_Interpretation ==
    (output.op = "parse_status" /\ input.entry.kind = "dict") =>
        LET h == input.entry
        IN  IF "homework_name" \notin h.keys \/ "status" \notin h.keys
            THEN output.raised /\ output.err = MissingFieldError(h)
            ELSE IF h.status \notin {"approved", "reviewing", "rejected"}
            THEN output.raised /\ output.err = UnknownStatusError
            ELSE /\ ~output.raised
                 /\ output.value = "Izmenilsya status proverki raboty \""
                                   \o h.homework_name \o "\". "
                                   \o HOMEWORK_VERDICTS[h.status]

====
